---- MODULE Spec2Model ----
(***************************************************************************)
(* Stroke-RAG: the four answering scripts (scripts/claude_RAG.py,          *)
(* scripts/claude_BASE.py, scripts/llama_BASE.py, scripts/openai_BASE.py)  *)
(* and the grader (grader.py), as state machines.                          *)
(*                                                                         *)
(* A Python str is a sequence of one-character strings, so that strip(),   *)
(* lower(), startswith() and split() are computed and not assumed.  The    *)
(* line terminator of a file line is whitespace that strip() removes and   *)
(* is not represented.  A score is kept in hundredths (0.5 is 50).         *)
(***************************************************************************)
EXTENDS Integers, Sequences, FiniteSets, TLC

\* ---------------------------------------------------------------- bounds
MaxFileLines == 2
MaxLineLen == 3
MaxBlocks == 2
MaxRows == 2
MaxContentLen == 2

\* ------------------------------------------------------- Python values
\* a value that is either a str or not one (None, a pandas NaN)
Str(s) == [t |-> "str", v |-> s]
None == [t |-> "None"]
NaN == [t |-> "nan"]
IsStr(x) == x.t = "str"

\* str.strip() removes leading and trailing whitespace
IsSpace(c) == c = " "

RECURSIVE LStrip(_)
LStrip(s) ==
  IF s = <<>> THEN <<>>
  ELSE IF IsSpace(Head(s)) THEN LStrip(Tail(s)) ELSE s

RECURSIVE RStrip(_)
RStrip(s) ==
  IF s = <<>> THEN <<>>
  ELSE IF IsSpace(s[Len(s)]) THEN RStrip(SubSeq(s, 1, Len(s) - 1)) ELSE s

Strip(s) == RStrip(LStrip(s))

\* str.lower() on the letters of the alphabet used here
LowerChar(c) ==
  CASE c = "Q" -> "q"
    [] c = "A" -> "a"
    [] OTHER -> c

Lower(s) == [k \in 1..Len(s) |-> LowerChar(s[k])]

\* str.startswith(p)
StartsWith(s, p) == Len(s) >= Len(p) /\ SubSeq(s, 1, Len(p)) = p

\* s.split(":", 1)[1]: what follows the first colon (the caller has checked
\* that there is one)
RECURSIVE AfterFirstColon(_)
AfterFirstColon(s) ==
  IF s = <<>> THEN <<>>
  ELSE IF Head(s) = ":" THEN Tail(s) ELSE AfterFirstColon(Tail(s))

\* all sequences over S of length at most n
SeqsUpTo(S, n) == UNION {[1..k -> S] : k \in 0..n}

\* ------------------------------------------------------ question loading
QMarker == <<"q", ":">>

HasMarkerUnstripped(line) == StartsWith(Lower(line), QMarker)

\* one element of the list comprehension that reads QUESTIONS_FILE
QuestionOf(line) ==
  IF HasMarkerUnstripped(line)
  THEN Strip(AfterFirstColon(Strip(line)))
  ELSE Strip(line)

\* the list comprehension: one question per line whose strip() is non-empty
RECURSIVE LoadQuestions(_)
LoadQuestions(ls) ==
  IF ls = <<>> THEN <<>>
  ELSE IF Strip(Head(ls)) # <<>>
       THEN <<QuestionOf(Head(ls))>> \o LoadQuestions(Tail(ls))
       ELSE LoadQuestions(Tail(ls))

\* ------------------------------------------------------------ the state
VARIABLES
  program,            \* which script runs
  env,                \* the environment after load_dotenv(): key -> value
  lines,              \* the lines of QUESTIONS_FILE
  pc,                 \* position in main()
  docsParsed,         \* claude_RAG: documents = ...load_data() has run
  indexBuilt,         \* claude_RAG: index = VectorStoreIndex(nodes) has run
  questions,          \* main(): questions
  rows,               \* main(): rows
  output,             \* OUTPUT_FILE / OUTPUT_CSV: NoFile or its rows
  hist,               \* per processed question: what the services returned
  calls,              \* every service call issued, in order
  df,                 \* grader: the table read from INPUT_CSV
  columns,            \* grader: the column names of INPUT_CSV
  refContent,         \* grader: the content of REFERENCE_ANSWERS
  reference_answers,  \* grader main(): reference_answers
  scores,             \* grader main(): scores
  explanations,       \* grader main(): explanations
  graded              \* grader: per row visited, the grading call (or none)

runVars == <<program, env, lines, pc, docsParsed, indexBuilt, questions,
             rows, output, hist, calls>>
graderVars == <<df, columns, refContent, reference_answers, scores,
                explanations, graded>>
vars == <<runVars, graderVars>>

AnswerScripts == {"claude_RAG", "claude_BASE", "llama_BASE", "openai_BASE"}

NoFile == [written |-> FALSE, header |-> <<>>, rows |-> <<>>]

\* the credentials each program reads with os.getenv, in the order checked
RequiredKeys(p) ==
  CASE p = "claude_RAG" ->
         <<"ANTHROPIC_API_KEY", "LLAMA_PARSE_API_KEY", "OPENAI_API_KEY">>
    [] p = "claude_BASE" -> <<"ANTHROPIC_API_KEY">>
    [] p = "llama_BASE" -> <<"LLAMA_API_KEY">>
    [] p = "openai_BASE" -> <<"OPENAI_API_KEY">>
    [] p = "grader" -> <<"OPENAI_API_KEY">>

KeyNames(p) == {RequiredKeys(p)[k] : k \in 1..Len(RequiredKeys(p))}

\* os.getenv gives None for an unset variable, else its (possibly empty) str
KeyValues == {None, Str(<<>>), Str(<<"k">>)}

\* Python truthiness of an os.getenv result: `not api_key`
Falsy(x) == ~IsStr(x) \/ x.v = <<>>

\* a check that looks at the first credential only
KeysMissing_FirstOnly(p, e) == Falsy(e[RequiredKeys(p)[1]])

\* the `if not ...: raise ValueError` checks at the top of main()
KeysMissing(p, e) == \E k \in KeyNames(p) : Falsy(e[k])

\* ------------------------------------------- the retrieval configuration
SIMILARITY_TOP_K == 20
SIMILARITY_CUTOFF == 25
RERANK_TOP_N == 10

\* the nodes of the index built from ./data
NodeIds == {1, 2}
SimScores == {10, 25, 40}

\* first n elements of a sequence
Take(s, n) == SubSeq(s, 1, IF Len(s) < n THEN Len(s) ELSE n)

\* VectorIndexRetriever(similarity_top_k=20): the nearest nodes, best first
Retrieve(ranked) == Take(ranked, SIMILARITY_TOP_K)

\* SimilarityPostprocessor(similarity_cutoff=0.25): keeps score >= cutoff
SimilarityFilter(cands) ==
  SelectSeq(cands, LAMBDA c : c.score >= SIMILARITY_CUTOFF)

\* insertion of one candidate into a list ordered by descending rerank score
RECURSIVE InsertByScore(_, _, _)
InsertByScore(c, sorted, rr) ==
  IF sorted = <<>> THEN <<c>>
  ELSE IF rr[c.id] >= rr[Head(sorted).id]
       THEN <<c>> \o sorted
       ELSE <<Head(sorted)>> \o InsertByScore(c, Tail(sorted), rr)

RECURSIVE SortByScore(_, _)
SortByScore(cands, rr) ==
  IF cands = <<>> THEN <<>>
  ELSE InsertByScore(Head(cands), SortByScore(Tail(cands), rr), rr)

\* SentenceTransformerRerank(top_n=10): best top_n by cross-encoder score
Rerank(cands, rr) == Take(SortByScore(cands, rr), RERANK_TOP_N)

\* node_postprocessors, applied in list order to the retriever's result
Postprocess(ranked, rr) == Rerank(SimilarityFilter(Retrieve(ranked)), rr)

\* the retriever's result for a question: distinct nodes, descending score
RankedLists ==
  {s \in SeqsUpTo([id : NodeIds, score : SimScores], Cardinality(NodeIds)) :
     /\ \A a, b \in 1..Len(s) : a < b => s[a].score >= s[b].score
     /\ \A a, b \in 1..Len(s) : a # b => s[a].id # s[b].id}

RagTrace == <<"retrieve", "filter", "rerank", "assemble", "generate">>
BaseTrace == <<"assemble", "generate">>

\* -------------------------------------------------- generation responses
TextBlock(s) == [type |-> "text", text |-> s]
ToolBlock == [type |-> "tool_use", text |-> <<>>]

\* Anthropic messages.create: msg.content is a list of content blocks
ContentBlocks == {TextBlock(<<" ", "a">>), TextBlock(<<" ">>), ToolBlock}
ClaudeResponses == SeqsUpTo(ContentBlocks, MaxBlocks)

\* chat.completions message.content, query-engine resp.response: str or None
OptTexts == {None, Str(<<>>), Str(<<" ">>), Str(<<" ", "a", " ">>)}

\* responses.create output_text: always a str
PlainTexts == {x \in OptTexts : IsStr(x)}

ResponsesOf(p) ==
  CASE p = "claude_BASE" -> ClaudeResponses
    [] p = "claude_RAG" -> OptTexts
    [] p = "llama_BASE" -> OptTexts
    [] p = "openai_BASE" -> PlainTexts

\* claude_BASE: answer += block.text for every block of type "text"
RECURSIVE ConcatText(_)
ConcatText(blocks) ==
  IF blocks = <<>> THEN <<>>
  ELSE (IF Head(blocks).type = "text" THEN Head(blocks).text ELSE <<>>)
         \o ConcatText(Tail(blocks))

\* str(resp) of the query engine's response object: its text when it has a
\* non-empty one, otherwise the text None
StrOfResponse(resp) ==
  IF IsStr(resp) /\ resp.v # <<>> THEN resp.v ELSE <<"N", "o", "n", "e">>

\* claude_RAG run_query, after query_engine.query(question) returned resp
run_query(resp) ==
  IF IsStr(resp) /\ Strip(resp.v) # <<>>
  THEN Strip(resp.v)
  ELSE Strip(StrOfResponse(resp))

\* the answer each script extracts from the generation response
AnswerOf(p, resp) ==
  CASE p = "claude_BASE" -> Strip(ConcatText(resp))
    [] p = "claude_RAG" -> run_query(resp)
    [] p = "llama_BASE" -> Strip(IF Falsy(resp) THEN <<>> ELSE resp.v)
    [] p = "openai_BASE" -> Strip(resp.v)

\* ------------------------------------------------- the answering scripts
Chars == {" ", "Q", "q", ":", "a"}

\* the lines a questions file is made of in the batch runs
LineChoices == {<<"Q", ":", " ", "a">>, <<"Q", " ">>, <<" ">>}

RerankScores == [NodeIds -> 1..2]
ErrorKinds == {"transient", "permanent"}

\* the external calls one question makes, in order
StagesOf(p) ==
  IF p = "claude_RAG" THEN <<"embed", "rerank", "generate">>
  ELSE <<"generate">>

Call(q, service, result) == [q |-> q, service |-> service, result |-> result]

\* the calls of a question up to and including stage n, the last one failing
\* with `last`
RECURSIVE CallsUpTo(_, _, _, _)
CallsUpTo(p, q, n, last) ==
  IF n = 0 THEN <<>>
  ELSE CallsUpTo(p, q, n - 1, "ok") \o <<Call(q, StagesOf(p)[n], last)>>

Ids(cands) == [k \in 1..Len(cands) |-> cands[k].id]

InitRun ==
  /\ program \in AnswerScripts
  /\ env \in [KeyNames(program) -> KeyValues]
  /\ pc = "start"
  /\ docsParsed = FALSE
  /\ indexBuilt = FALSE
  /\ questions = <<>>
  /\ rows = <<>>
  /\ output = NoFile
  /\ hist = <<>>
  /\ calls = <<>>

GraderIdle ==
  /\ df = <<>>
  /\ columns = {}
  /\ refContent = <<>>
  /\ reference_answers = <<>>
  /\ scores = <<>>
  /\ explanations = <<>>
  /\ graded = <<>>

InitAnswer ==
  /\ InitRun
  /\ lines \in SeqsUpTo(LineChoices, MaxFileLines)
  /\ GraderIdle

\* main(): load_dotenv(), os.getenv and the credential checks; a missing
\* credential raises ValueError out of main()
Startup ==
  /\ pc = "start"
  /\ program \in AnswerScripts
  /\ pc' = IF KeysMissing(program, env) THEN "config_error"
            ELSE IF program = "claude_RAG" THEN "ingest" ELSE "ready"
  /\ UNCHANGED <<program, env, lines, docsParsed, indexBuilt, questions,
                 rows, output, hist, calls, graderVars>>

\* claude_RAG: parse ./data, split into nodes, embed and index them
Ingest ==
  /\ pc = "ingest"
  /\ docsParsed' = TRUE
  /\ indexBuilt' = TRUE
  /\ calls' = Append(calls, Call(0, "embed", "ok"))
  /\ pc' = "ready"
  /\ UNCHANGED <<program, env, lines, questions, rows, output, hist,
                 graderVars>>

\* claude_RAG: the parser or the index build raises; nothing catches it
IngestRaises ==
  /\ pc = "ingest"
  /\ \E kind \in ErrorKinds : calls' = Append(calls, Call(0, "embed", kind))
  /\ pc' = "aborted"
  /\ UNCHANGED <<program, env, lines, docsParsed, indexBuilt, questions,
                 rows, output, hist, graderVars>>

\* with open(QUESTIONS_FILE): questions = [...]
ReadQuestions ==
  /\ pc = "ready"
  /\ questions' = LoadQuestions(lines)
  /\ pc' = "loop"
  /\ UNCHANGED <<program, env, lines, docsParsed, indexBuilt, rows, output,
                 hist, calls, graderVars>>

\* one iteration of `for i, question in enumerate(questions, start=1)` in
\* which every call returns: the answer is extracted and the row appended
ProcessQuestion ==
  /\ pc = "loop"
  /\ Len(rows) < Len(questions)
  /\ LET q == Len(rows) + 1 IN
     \E resp \in ResponsesOf(program), ranked \in RankedLists,
        rr \in RerankScores :
       LET context == IF program = "claude_RAG"
                      THEN Ids(Postprocess(ranked, rr)) ELSE <<>>
       IN
       /\ program # "claude_RAG" =>
            (ranked = <<>> /\ rr = [n \in NodeIds |-> 1])
       \* the index is read-only after the build: a repeated question
       \* retrieves the same context
       /\ \A j \in 1..Len(rows) :
            questions[j] = questions[q] => hist[j].context = context
       /\ rows' = Append(rows, <<questions[q], AnswerOf(program, resp)>>)
       /\ hist' = Append(hist,
            [resp |-> resp, context |-> context,
             trace |-> IF program = "claude_RAG" THEN RagTrace
                       ELSE BaseTrace])
       /\ calls' = calls \o CallsUpTo(program, q, Len(StagesOf(program)), "ok")
  /\ UNCHANGED <<program, env, lines, pc, docsParsed, indexBuilt, questions,
                 output, graderVars>>

\* a loop that swallows the exception and issues the question's calls again
ProcessQuestionRaises_Retries ==
  /\ pc = "loop"
  /\ Len(rows) < Len(questions)
  /\ Len(calls) < 8
  /\ \E n \in 1..Len(StagesOf(program)), kind \in ErrorKinds :
       calls' = calls \o CallsUpTo(program, Len(rows) + 1, n, kind)
  /\ UNCHANGED <<program, env, lines, pc, docsParsed, indexBuilt, questions,
                 rows, output, hist, graderVars>>

\* one iteration in which a call raises: the loop has no try/except, so the
\* exception leaves main() and the script ends without writing its output
ProcessQuestionRaises ==
  /\ pc = "loop"
  /\ Len(rows) < Len(questions)
  /\ \E n \in 1..Len(StagesOf(program)), kind \in ErrorKinds :
       calls' = calls \o CallsUpTo(program, Len(rows) + 1, n, kind)
  /\ pc' = "aborted"
  /\ UNCHANGED <<program, env, lines, docsParsed, indexBuilt, questions,
                 rows, output, hist, graderVars>>

\* an output that loses its first row
WriteOutput_SkipsFirst ==
  /\ pc = "loop"
  /\ Len(rows) = Len(questions)
  /\ output' = [written |-> TRUE, header |-> <<"Q", "A">>,
                rows |-> IF rows = <<>> THEN <<>> ELSE Tail(rows)]
  /\ pc' = "done"
  /\ UNCHANGED <<program, env, lines, docsParsed, indexBuilt, questions,
                 rows, hist, calls, graderVars>>

\* with open(OUTPUT_FILE, "w"): writerow(["Q", "A"]); writerows(rows)
WriteOutput ==
  /\ pc = "loop"
  /\ Len(rows) = Len(questions)
  /\ output' = [written |-> TRUE, header |-> <<"Q", "A">>, rows |-> rows]
  /\ pc' = "done"
  /\ UNCHANGED <<program, env, lines, docsParsed, indexBuilt, questions,
                 rows, hist, calls, graderVars>>


\* ------------------------------------------------------------- the grader
\* The grading model's output text is a sequence of tokens: whitespace, a
\* markdown fence, a brace, a JSON member ("key": value) or any other word.
Ws == [k |-> "ws"]
FenceJson == [k |-> "fence_json"]
Fence == [k |-> "fence"]
LBrace == [k |-> "{"]
RBrace == [k |-> "}"]
Word == [k |-> "word"]
Member(key, val) == [k |-> "member", key |-> key, val |-> val]

Num(n) == [t |-> "num", v |-> n]
Null == [t |-> "null"]

\* text.strip() on a token sequence
RECURSIVE LStripT(_)
LStripT(s) ==
  IF s = <<>> THEN <<>>
  ELSE IF Head(s) = Ws THEN LStripT(Tail(s)) ELSE s

RECURSIVE RStripT(_)
RStripT(s) ==
  IF s = <<>> THEN <<>>
  ELSE IF s[Len(s)] = Ws THEN RStripT(SubSeq(s, 1, Len(s) - 1)) ELSE s

StripT(s) == RStripT(LStripT(s))

\* text.replace(fence_json, "").replace(fence, ""): the markdown fences go
Unfence(s) == SelectSeq(s, LAMBDA tok : tok # FenceJson /\ tok # Fence)

Positions(s, tok) == {k \in 1..Len(s) : s[k] = tok}
Min(S) == CHOOSE x \in S : \A y \in S : x <= y
Max(S) == CHOOSE x \in S : \A y \in S : x >= y

\* re.search(r"\{.*\}", text, re.DOTALL): from the first "{" to the last
\* "}" after it; <<>> stands for no match (a match is never empty)
BraceMatch(s) ==
  LET opens == Positions(s, LBrace) IN
  IF opens = {} THEN <<>>
  ELSE LET first == Min(opens)
           closes == {k \in Positions(s, RBrace) : k > first}
       IN IF closes = {} THEN <<>> ELSE SubSeq(s, first, Max(closes))

\* json.loads of "{" members "}": a dict, the last member of a key winning;
\* anything but members and whitespace between the braces is a decode error
JsonBody(m) == SelectSeq(SubSeq(m, 2, Len(m) - 1), LAMBDA tok : tok # Ws)
JsonValid(m) == \A k \in 1..Len(JsonBody(m)) : JsonBody(m)[k].k = "member"
JsonKeys(m) == {JsonBody(m)[k].key : k \in 1..Len(JsonBody(m))}
JsonLoads(m) ==
  [key \in JsonKeys(m) |->
     JsonBody(m)[Max({k \in 1..Len(JsonBody(m)) : JsonBody(m)[k].key = key})
                ].val]

NoData == [t |-> "None"]
Data(d) == [t |-> "dict", d |-> d]

safe_parse_json(text) ==
  LET match == BraceMatch(StripT(Unfence(StripT(text)))) IN
  IF match # <<>> /\ JsonValid(match) THEN Data(JsonLoads(match)) ELSE NoData

\* `data and "score" in data`
HasScore(data) ==
  data.t = "dict" /\ DOMAIN data.d # {} /\ "score" \in DOMAIN data.d

\* float(x) raises for None and for a str that is no number
FloatRaises(x) == x.t = "null" \/ (x.t = "str" /\ x.v # <<"1">>)
Float(x) == IF x.t = "num" THEN x.v ELSE 100

\* str(x) of a JSON value or of a table cell
PyStr(x) ==
  CASE x.t = "str" -> x.v
    [] x.t = "nan" -> <<"n", "a", "n">>
    [] x.t = "null" -> <<"N", "o", "n", "e">>
    [] x.t = "num" -> <<"0">>

Explanation(msg, chars, text) == [msg |-> msg, chars |-> chars, text |-> text]
EMPTY_ROW == Explanation("WRONG. Empty question or answer.", <<>>, <<>>)
NO_REFERENCE == Explanation("WRONG. No reference answer available.", <<>>, <<>>)

\* grade_one_qa after the call returned: (score, explanation)
GradeOf(output_text) ==
  LET text == StripT(output_text)
      data == safe_parse_json(text)
  IN IF HasScore(data)
     THEN <<Float(data.d["score"]),
            Explanation("",
              Strip(PyStr(IF "explanation" \in DOMAIN data.d
                          THEN data.d["explanation"] ELSE Str(<<>>))),
              <<>>)>>
     ELSE <<0, Explanation("Could not parse model response: ", <<>>, text)>>

GradeRaises(output_text) ==
  LET data == safe_parse_json(StripT(output_text)) IN
  HasScore(data) /\ FloatRaises(data.d["score"])

\* content.split on the answer marker, which is one token of the content
RefSep == "A: "
RECURSIVE SplitRef(_, _)
SplitRef(content, cur) ==
  IF content = <<>> THEN <<cur>>
  ELSE IF Head(content) = RefSep
       THEN <<cur>> \o SplitRef(Tail(content), <<>>)
       ELSE SplitRef(Tail(content), Append(cur, Head(content)))

RECURSIVE StripNonEmpty(_)
StripNonEmpty(parts) ==
  IF parts = <<>> THEN <<>>
  ELSE IF Strip(Head(parts)) # <<>>
       THEN <<Strip(Head(parts))>> \o StripNonEmpty(Tail(parts))
       ELSE StripNonEmpty(Tail(parts))

load_reference_answers(content) == StripNonEmpty(SplitRef(content, <<>>))

\* `while len(reference_answers) < len(df): reference_answers.append("")`
RECURSIVE PadTo(_, _)
PadTo(refs, n) == IF Len(refs) < n THEN PadTo(Append(refs, <<>>), n) ELSE refs

\* pd.isna of a scalar
PdIsNa(x) == x.t = "nan"

\* the `# Skip empty rows` test, on q = str(row["Q"]) and a = str(row["A"])
IsEmptyRow(row) ==
  LET q == Str(PyStr(row.Q))
      a == Str(PyStr(row.A))
  IN PdIsNa(q) \/ Strip(q.v) = <<>> \/ PdIsNa(a) \/ Strip(a.v) = <<>>

\* reference_answers[idx] if idx < len(reference_answers) else ""
RefAt(refs, idx) == IF idx < Len(refs) THEN refs[idx + 1] ELSE <<>>

\* what read_csv gives for a cell: NaN for an empty one, else its text
Cells == {NaN, Str(<<" ">>), Str(<<"a">>)}
TableRows == [Q : Cells, A : Cells]
ColumnSets == {{"Q", "A"}, {"Question", "Answer"}}
RefTokens == {RefSep, "r", " "}

Expl == Member("explanation", Str(<<" ", "W">>))

\* output texts of the grading model
ResponseTexts ==
  {<<LBrace, Member("score", Num(100)), Expl, RBrace>>,
   <<FenceJson, LBrace, Member("score", Num(50)), RBrace, Fence, Ws>>,
   <<LBrace, Member("score", Num(0)), RBrace>>,
   <<LBrace, Member("score", Num(75)), RBrace>>,
   <<LBrace, Member("score", Str(<<"h">>)), RBrace>>,
   <<LBrace, Expl, RBrace>>,
   <<LBrace, Word, RBrace>>,
   <<Word>>}

NoCall == [called |-> FALSE, text |-> <<>>, result |-> "none"]
GradingCall(text, result) == [called |-> TRUE, text |-> text, result |-> result]

InitGrader ==
  /\ program = "grader"
  /\ env \in [KeyNames("grader") -> KeyValues]
  /\ lines = <<>>
  /\ pc = "start"
  /\ docsParsed = FALSE
  /\ indexBuilt = FALSE
  /\ questions = <<>>
  /\ rows = <<>>
  /\ output = NoFile
  /\ hist = <<>>
  /\ calls = <<>>
  /\ df \in SeqsUpTo(TableRows, MaxRows)
  /\ columns \in ColumnSets
  /\ refContent \in SeqsUpTo(RefTokens, MaxContentLen)
  /\ reference_answers = <<>>
  /\ scores = <<>>
  /\ explanations = <<>>
  /\ graded = <<>>

\* main(): client = make_client(); a missing key raises ValueError
GraderStartup ==
  /\ pc = "start"
  /\ program = "grader"
  /\ pc' = IF KeysMissing(program, env) THEN "config_error" ELSE "read"
  /\ UNCHANGED <<program, env, lines, docsParsed, indexBuilt, questions,
                 rows, output, hist, calls, graderVars>>

\* main(): read_csv, the column check, the reference answers and their
\* padding
GraderRead ==
  /\ pc = "read"
  /\ IF "Q" \notin columns \/ "A" \notin columns
     THEN /\ pc' = "aborted"
          /\ UNCHANGED reference_answers
     ELSE /\ pc' = "grade"
          /\ reference_answers' =
               PadTo(load_reference_answers(refContent), Len(df))
  /\ UNCHANGED <<program, env, lines, docsParsed, indexBuilt, questions,
                 rows, output, hist, calls, df, columns, refContent, scores,
                 explanations, graded>>

\* one iteration of `for idx, row in df.iterrows()` that makes no call
SkipRow ==
  /\ pc = "grade"
  /\ Len(scores) < Len(df)
  /\ LET idx == Len(scores)
         row == df[idx + 1]
     IN /\ IsEmptyRow(row) \/ RefAt(reference_answers, idx) = <<>>
        /\ scores' = Append(scores, 0)
        /\ explanations' = Append(explanations,
             IF IsEmptyRow(row) THEN EMPTY_ROW ELSE NO_REFERENCE)
        /\ graded' = Append(graded, NoCall)
  /\ UNCHANGED <<runVars, df, columns, refContent, reference_answers>>

\* one iteration that calls grade_one_qa and appends what it returns
GradeRow ==
  /\ pc = "grade"
  /\ Len(scores) < Len(df)
  /\ LET idx == Len(scores)
         row == df[idx + 1]
     IN /\ ~IsEmptyRow(row)
        /\ RefAt(reference_answers, idx) # <<>>
        /\ \E text \in ResponseTexts :
             /\ ~GradeRaises(text)
             /\ scores' = Append(scores, GradeOf(text)[1])
             /\ explanations' = Append(explanations, GradeOf(text)[2])
             /\ graded' = Append(graded, GradingCall(text, "ok"))
  /\ UNCHANGED <<runVars, df, columns, refContent, reference_answers>>

\* one iteration in which grade_one_qa raises (the call itself, or float()
\* on the score it returned); nothing catches it
GradeRowRaises ==
  /\ pc = "grade"
  /\ Len(scores) < Len(df)
  /\ LET idx == Len(scores)
         row == df[idx + 1]
     IN /\ ~IsEmptyRow(row)
        /\ RefAt(reference_answers, idx) # <<>>
        /\ \/ \E text \in ResponseTexts :
                /\ GradeRaises(text)
                /\ graded' = Append(graded, GradingCall(text, "ValueError"))
           \/ \E kind \in ErrorKinds :
                graded' = Append(graded, GradingCall(<<>>, kind))
  /\ pc' = "aborted"
  /\ UNCHANGED <<program, env, lines, docsParsed, indexBuilt, questions,
                 rows, output, hist, calls, df, columns, refContent,
                 reference_answers, scores, explanations>>

\* df["score"] = scores; df["explanation"] = explanations; df.to_csv
GraderWrite ==
  /\ pc = "grade"
  /\ Len(scores) = Len(df)
  /\ output' = [written |-> TRUE,
                header |-> <<"Q", "A", "score", "explanation">>,
                rows |-> [k \in 1..Len(df) |->
                           <<df[k].Q, df[k].A, scores[k], explanations[k]>>]]
  /\ pc' = "done"
  /\ UNCHANGED <<program, env, lines, docsParsed, indexBuilt, questions,
                 rows, hist, calls, graderVars>>

\* ---------------------------------------------- one run of one program
Init == InitAnswer \/ InitGrader

Next ==
  \/ Startup
  \/ Ingest
  \/ IngestRaises
  \/ ReadQuestions
  \/ ProcessQuestion
  \/ ProcessQuestionRaises
  \/ WriteOutput
  \/ GraderStartup
  \/ GraderRead
  \/ SkipRow
  \/ GradeRow
  \/ GradeRowRaises
  \/ GraderWrite

Spec == Init /\ [][Next]_vars

\* ------------------------------------------- question loading on its own
InitLoad ==
  /\ program \in {"claude_RAG", "llama_BASE"}
  /\ env = [k \in KeyNames(program) |-> Str(<<"k">>)]
  /\ lines \in SeqsUpTo(SeqsUpTo(Chars, MaxLineLen), MaxFileLines)
  /\ pc = "ready"
  /\ docsParsed = (program = "claude_RAG")
  /\ indexBuilt = (program = "claude_RAG")
  /\ questions = <<>>
  /\ rows = <<>>
  /\ output = NoFile
  /\ hist = <<>>
  /\ calls = <<>>
  /\ GraderIdle

NextLoad == ReadQuestions

SpecLoad == InitLoad /\ [][NextLoad]_vars

\* ================================================================ claims

PerQuestionFailure(c) == c.q >= 1 /\ c.result # "ok"

\* C1: a failure while answering one question never aborts the batch; only
\* a corpus-level or configuration-level failure stops the run.
C1_FailureNeverAborts ==
  pc = "aborted" => \A k \in 1..Len(calls) : ~PerQuestionFailure(calls[k])

\* a response without a text segment: text missing or only whitespace
NoTextSegment(p, resp) ==
  IF p = "claude_BASE"
  THEN \A k \in 1..Len(resp) :
         resp[k].type # "text" \/ Strip(resp[k].text) = <<>>
  ELSE ~IsStr(resp) \/ Strip(resp.v) = <<>>

\* C2: a response that carries no text segment is recorded as the empty
\* answer for its question.
C2_NoTextGivesEmptyAnswer ==
  \A j \in 1..Len(rows) :
    NoTextSegment(program, hist[j].resp) => rows[j][2] = <<>>

\* the first text-bearing segment of a response that has one
FirstText(p, resp) ==
  IF p = "claude_BASE"
  THEN resp[Min({k \in 1..Len(resp) :
                  resp[k].type = "text" /\ Strip(resp[k].text) # <<>>})].text
  ELSE resp.v

GenerateCalls(q) ==
  {k \in 1..Len(calls) : calls[k].q = q /\ calls[k].service = "generate"}

\* C3: every question goes retrieve, filter, rerank, assemble, then exactly
\* one generation call, and its answer is the first text-bearing segment
\* of the response, trimmed.
C3_FirstSegmentTrimmed ==
  \A j \in 1..Len(rows) :
    /\ program = "claude_RAG" => hist[j].trace = RagTrace
    /\ Cardinality(GenerateCalls(j)) = 1
    /\ ~NoTextSegment(program, hist[j].resp) =>
         rows[j][2] = Strip(FirstText(program, hist[j].resp))

NonBlankLines == SelectSeq(lines, LAMBDA l : Strip(l) # <<>>)

\* C4: the written file is the header Q, A followed by one two-field row
\* per non-blank question line, in input order, each holding that line's
\* question and the answer extracted for it.
C4_OutputRowsInOrder ==
  (output.written /\ program \in AnswerScripts) =>
    /\ output.header = <<"Q", "A">>
    /\ Len(output.rows) = Len(NonBlankLines)
    /\ \A j \in 1..Len(output.rows) :
         /\ Len(output.rows[j]) = 2
         /\ output.rows[j][1] = QuestionOf(NonBlankLines[j])
         /\ output.rows[j][2] = AnswerOf(program, hist[j].resp)

C4_Witness ==
  /\ output.written
  /\ program \in AnswerScripts
  /\ Len(output.rows) = 2
  /\ output.rows[1][1] # output.rows[2][1]
  /\ output.rows[1][2] # output.rows[2][2]

\* the question the claim expects of a line: the marker is looked for after
\* the leading whitespace
ClaimedQuestionOf(line) ==
  IF StartsWith(Lower(LStrip(line)), QMarker)
  THEN Strip(AfterFirstColon(line))
  ELSE Strip(line)

\* C5: every line with a q: marker, in any letter case and with or without
\* whitespace before it, gives the text after the marker, trimmed; other
\* lines pass through trimmed; blank lines give no question.
C5_MarkerStripped ==
  pc = "loop" =>
    questions = [j \in 1..Len(NonBlankLines) |->
                   ClaimedQuestionOf(NonBlankLines[j])]

\* C6: with a required credential unset or empty, the run raises before a
\* document is parsed, an index built, a question read or processed, a
\* service called or an output written.
C6_MissingKeyFatalAtStartup ==
  (\E k \in DOMAIN env : env[k] = None \/ env[k] = Str(<<>>)) =>
    /\ pc \in {"start", "config_error"}
    /\ ~docsParsed
    /\ ~indexBuilt
    /\ questions = <<>>
    /\ rows = <<>>
    /\ hist = <<>>
    /\ calls = <<>>
    /\ reference_answers = <<>>
    /\ scores = <<>>
    /\ graded = <<>>
    /\ ~output.written

C6_Witness ==
  /\ pc = "config_error"
  /\ program = "claude_RAG"
  /\ ~Falsy(env["ANTHROPIC_API_KEY"])
  /\ ~Falsy(env["LLAMA_PARSE_API_KEY"])
  /\ env["OPENAI_API_KEY"] = Str(<<>>)

\* C7: a question whose candidates are all filtered out still gets an
\* answer, and that answer is distinguishable from a grounded one.
C7_UngroundedAnswerFlagged ==
  \A i, j \in 1..Len(rows) :
    (program = "claude_RAG" /\ rows[i][1] # rows[j][1]
       /\ hist[i].context = <<>> /\ hist[j].context # <<>>) =>
      rows[i][2] # rows[j][2]

CallsOf(q, service) ==
  {k \in 1..Len(calls) : calls[k].q = q /\ calls[k].service = service}

CellEmptyOrMissing(c) == ~IsStr(c) \/ Strip(c.v) = <<>>

\* C9: a row whose question or answer cell is empty or missing gets score 0
\* with the empty-row explanation and no grading call; a row without a
\* reference answer gets score 0 with the no-reference explanation and no
\* grading call.
C9_EmptyRowsSkipped ==
  \A k \in 1..Len(scores) :
    /\ (CellEmptyOrMissing(df[k].Q) \/ CellEmptyOrMissing(df[k].A)) =>
         /\ ~graded[k].called
         /\ scores[k] = 0
         /\ explanations[k] = EMPTY_ROW
    /\ (~CellEmptyOrMissing(df[k].Q) /\ ~CellEmptyOrMissing(df[k].A)
          /\ RefAt(reference_answers, k - 1) = <<>>) =>
         /\ ~graded[k].called
         /\ scores[k] = 0
         /\ explanations[k] = NO_REFERENCE

\* C10: after the loop every row has one score and one explanation, every
\* score is 0, 0.5 or 1, and no model response makes the grader raise.
C10_DiscreteScores ==
  /\ (pc = "done" /\ program = "grader") =>
       (Len(scores) = Len(df) /\ Len(explanations) = Len(df))
  /\ \A k \in 1..Len(scores) : scores[k] \in {0, 50, 100}
  /\ \A k \in 1..Len(graded) : graded[k].result # "ValueError"

====
